---- MODULE Spec2Model ----
(***************************************************************************)
(* State-machine model of CensusTracker (src/src/census_tracker.py): the   *)
(* two SQLite tables, their AUTOINCREMENT counters, and the operations     *)
(* add_district, record_census, list_districts, get_summary,               *)
(* regional_report and status.                                             *)
(*                                                                         *)
(* Conventions.                                                            *)
(*  - A table is the set of its rows; a row is a record whose fields are   *)
(*    the columns of the CREATE TABLE statement.                           *)
(*  - An optional Python value (None or a value) is a sequence of length   *)
(*    0 or 1: <<>> is None / SQL NULL, <<v>> is the value v.               *)
(*  - REAL outputs that the code rounds are kept as scaled integers:       *)
(*    yoy_growth and avg_household_size in hundredths, density in tenths.  *)
(*  - datetime.now() is the integer variable clock; every call of now()    *)
(*    reads it and lets one tick pass.                                     *)
(*  - result holds the outcome of the last call: the operation, its        *)
(*    arguments, the error kind ("" when it returned) and the value.       *)
(***************************************************************************)
EXTENDS Integers, Sequences, FiniteSets, TLC

VARIABLES districts, census_records, seq_districts, seq_census, clock,
          assigned_ids, result

vars == <<districts, census_records, seq_districts, seq_census, clock,
          assigned_ids, result>>

store == <<districts, census_records, seq_districts, seq_census>>

----------------------------------------------------------------------------
(* Bounds and input sets *)

\* number of datetime.now() calls explored (every write makes one)
MaxClock == 4

Names == {"Riverside", "Hilltop"}

\* "" is a legal region; "north" and "North" differ only in case
Regions == {"", "north", "North"}

\* (region, area_sqkm, district_type) of a registration; the first is the
\* signature's area and type with the empty region
Registrations ==
  {<<"", 0, "urban">>, <<"north", 10, "rural">>, <<"North", 0, "rural">>}

\* year 0 is an integer the INTEGER column accepts
Years == {0, 2020, 2021}

\* the measured fields of one record_census call; the first is the
\* signature's defaults
Measurements ==
  { [population |-> 0,  households |-> 0, avg_age |-> 0,  median_income |-> 0,
     unemployment_rate |-> 0, notes |-> ""],
    [population |-> 32, households |-> 2, avg_age |-> 30, median_income |-> 500,
     unemployment_rate |-> 5, notes |-> "first"],
    [population |-> 33, households |-> 0, avg_age |-> 41, median_income |-> 700,
     unemployment_rate |-> 7, notes |-> "second"] }

\* (year, measurements) of a record_census call: two different writes for
\* 2020 and for 2021, and one for year 0
CensusInputs ==
  { <<y, m>> \in Years \X Measurements :
       \/ y = 2020 /\ m.notes \in {"", "first"}
       \/ y = 2021 /\ m.notes \in {"", "second"}
       \/ y = 0 /\ m.notes = "first" }

\* list_districts(region=None) and list_districts(<a string>)
RegionFilters == {<<>>} \cup {<<r>> : r \in Regions}

----------------------------------------------------------------------------
(* Python and SQL helpers *)

\* Python truth value of an optional string: None and "" are falsy
TruthyStr(opt) == opt # <<>> /\ opt[1] # ""

\* Python truth value of an optional integer: None and 0 are falsy
TruthyInt(opt) == opt # <<>> /\ opt[1] # 0

\* round(num / den, k) on the scaled integers: nearest integer to num/den,
\* ties to even (Python 3 round)
RoundHalfEven(num, den) ==
  LET n == IF den < 0 THEN -num ELSE num
      d == IF den < 0 THEN -den ELSE den
      q == n \div d
      r == n % d
  IN  IF 2 * r < d THEN q
      ELSE IF 2 * r > d THEN q + 1
      ELSE IF q % 2 = 0 THEN q ELSE q + 1

\* variant: INTEGER PRIMARY KEY without AUTOINCREMENT, one more than the
\* largest rowid now in the table
NewRowidMaxPlusOne(table, seq) ==
  IF table = {} THEN 1
  ELSE (CHOOSE r \in table : \A o \in table : r.id >= o.id).id + 1

\* AUTOINCREMENT: the next rowid is one more than the largest ever used
\* (sqlite_sequence), whatever rows the table holds now
NewRowid(table, seq) == seq + 1

\* variant: name declared without UNIQUE
NameConflictNever(table, name) == FALSE

\* districts.name is UNIQUE: a plain INSERT of an existing name fails
NameConflict(table, name) == \E d \in table : d.name = name

\* variant: the WHERE clause dropped, fetchone yields the first row
SelectFirstDistrict(table, name) ==
  IF table = {} THEN <<>>
  ELSE <<CHOOSE d \in table : \A o \in table : d.id <= o.id>>

\* SELECT ... FROM districts WHERE name=?  (fetchone: a row or None)
SelectDistrictByName(table, name) ==
  LET hit == {d \in table : d.name = name}
  IN  IF hit = {} THEN <<>> ELSE <<CHOOSE d \in hit : TRUE>>

\* variant: census_records declared without UNIQUE(district_id, year)
DeleteConflictingNone(table, district_id, year) == table

\* the REPLACE conflict resolution: rows that collide with the new row on
\* UNIQUE(district_id, year) are deleted before it is inserted
DeleteConflicting(table, district_id, year) ==
  {r \in table : ~(r.district_id = district_id /\ r.year = year)}

\* INSERT OR REPLACE INTO census_records: the surviving rows (a row that
\* collides on the primary key goes too) and the new row
InsertOrReplace(table, row) ==
  {r \in DeleteConflicting(table, row.district_id, row.year) : r.id # row.id}
  \cup {row}

\* rows of a table in rowid order
RECURSIVE RowsById(_)
RowsById(S) ==
  IF S = {} THEN <<>>
  ELSE LET m == CHOOSE r \in S : \A o \in S : r.id <= o.id
       IN  <<m>> \o RowsById(S \ {m})

\* variant: ORDER BY id DESC, the most recently written rows first
RECURSIVE OrderByIdDesc(_)
OrderByIdDesc(S) ==
  IF S = {} THEN <<>>
  ELSE LET m == CHOOSE r \in S : \A o \in S : r.id >= o.id
       IN  <<m>> \o OrderByIdDesc(S \ {m})

\* ... ORDER BY year DESC
RECURSIVE OrderByYearDesc(_)
OrderByYearDesc(S) ==
  IF S = {} THEN <<>>
  ELSE LET m == CHOOSE r \in S : \A o \in S : r.year >= o.year
       IN  <<m>> \o OrderByYearDesc(S \ {m})

\* ... LIMIT n
Limit(rows, n) == SubSeq(rows, 1, IF Len(rows) < n THEN Len(rows) ELSE n)

----------------------------------------------------------------------------
(* Read operations as functions of the store *)

\* list_districts: `if region:` selects the filtered query
ListDistricts(region) ==
  IF TruthyStr(region)
  THEN RowsById({d \in districts : d.region = region[1]})
  ELSE RowsById(districts)

\* variant: the WHERE district_id=? clause dropped
LatestTwoOfAnyDistrict(district_id) ==
  Limit(OrderByYearDesc(census_records), 2)

\* SELECT * FROM census_records WHERE district_id=? ORDER BY year DESC LIMIT 2
LatestTwo(district_id) ==
  Limit(OrderByYearDesc({r \in census_records : r.district_id = district_id}), 2)

\* get_summary: [error, value]
GetSummary(district_name) ==
  LET d == SelectDistrictByName(districts, district_name)
  IN  IF d = <<>>
      THEN [error |-> "DistrictNotFound", value |-> <<>>]
      ELSE
        LET district == d[1]
            rows     == LatestTwo(district.id)
        IN  IF rows = <<>>
            THEN [error |-> "NoCensusData", value |-> <<>>]
            ELSE
              LET latest  == rows[1]
                  density == IF district.area_sqkm > 0
                             THEN RoundHalfEven(latest.population * 10,
                                                district.area_sqkm)
                             ELSE 0
                  yoy     == IF Len(rows) > 1 /\ rows[2].population > 0
                             THEN RoundHalfEven(
                                    (latest.population - rows[2].population) * 10000,
                                    rows[2].population)
                             ELSE 0
              IN  [error |-> "",
                   value |-> [district_name     |-> district.name,
                              region            |-> district.region,
                              latest_year       |-> latest.year,
                              population        |-> latest.population,
                              households        |-> latest.households,
                              density_per_sqkm  |-> density,
                              avg_age           |-> latest.avg_age,
                              median_income     |-> latest.median_income,
                              unemployment_rate |-> latest.unemployment_rate,
                              yoy_growth        |-> yoy]]

\* the for loop of regional_report: acc = <<total_pop, total_hh, count>>
RECURSIVE Accumulate(_, _, _)
Accumulate(ds, i, acc) ==
  IF i > Len(ds) THEN acc
  ELSE LET s == GetSummary(ds[i].name)
       IN  IF s.error = ""
           THEN Accumulate(ds, i + 1, <<acc[1] + s.value.population,
                                        acc[2] + s.value.households,
                                        acc[3] + 1>>)
           ELSE Accumulate(ds, i + 1, acc)

RegionalReport(region) ==
  LET ds == ListDistricts(<<region>>)
  IN  IF ds = <<>>
      THEN [region |-> region, districts |-> 0]
      ELSE LET acc == Accumulate(ds, 1, <<0, 0, 0>>)
           IN  [region              |-> region,
                districts_with_data |-> acc[3],
                total_population    |-> acc[1],
                total_households    |-> acc[2],
                avg_household_size  |-> IF acc[2] # 0
                                        THEN RoundHalfEven(acc[1] * 100, acc[2])
                                        ELSE 0]

\* SELECT MIN(year), MAX(year) FROM census_records: NULLs on an empty table
MinMaxYear ==
  IF census_records = {} THEN <<<<>>, <<>>>>
  ELSE LET ys == {r.year : r \in census_records}
       IN  << <<CHOOSE y \in ys : \A o \in ys : y <= o>>,
              <<CHOOSE y \in ys : \A o \in ys : y >= o>> >>

\* year_range: <<>> stands for the text "none", <<lo, hi>> for "lo-hi"
YearRange(years) ==
  IF TruthyInt(years[1]) THEN <<years[1][1], years[2][1]>> ELSE <<>>

Status ==
  [districts      |-> Cardinality(districts),
   census_records |-> Cardinality(census_records),
   year_range     |-> YearRange(MinMaxYear)]

----------------------------------------------------------------------------
(* State machine *)

Init ==
  /\ districts = {}
  /\ census_records = {}
  /\ seq_districts = 0
  /\ seq_census = 0
  /\ clock = 0
  /\ assigned_ids = {}
  /\ result = [op |-> "init", args |-> <<>>, error |-> "", value |-> <<>>]

add_district(name, region, area_sqkm, district_type) ==
  LET now  == clock
      args == [name |-> name, region |-> region, area_sqkm |-> area_sqkm,
               district_type |-> district_type]
      row  == [id |-> NewRowid(districts, seq_districts), name |-> name,
               region |-> region, area_sqkm |-> area_sqkm,
               district_type |-> district_type, created_at |-> now]
  IN  /\ clock < MaxClock
      /\ clock' = clock + 1
      /\ IF NameConflict(districts, name)
         THEN /\ result' = [op |-> "add_district", args |-> args,
                            error |-> "DuplicateDistrict", value |-> <<>>]
              /\ UNCHANGED <<districts, seq_districts>>
         ELSE /\ districts' = districts \cup {row}
              /\ seq_districts' = row.id
              /\ result' = [op |-> "add_district", args |-> args,
                            error |-> "", value |-> row]
      /\ UNCHANGED <<census_records, seq_census, assigned_ids>>

record_census(district_name, year, m) ==
  LET d    == SelectDistrictByName(districts, district_name)
      args == [district_name |-> district_name, year |-> year,
               population |-> m.population, households |-> m.households,
               avg_age |-> m.avg_age, median_income |-> m.median_income,
               unemployment_rate |-> m.unemployment_rate, notes |-> m.notes]
  IN  IF d = <<>>
      THEN /\ result' = [op |-> "record_census", args |-> args,
                         error |-> "DistrictNotFound", value |-> <<>>]
           /\ UNCHANGED <<districts, census_records, seq_districts, seq_census,
                          clock, assigned_ids>>
      ELSE
        LET now == clock
            row == [id |-> NewRowid(DeleteConflicting(census_records, d[1].id,
                                                      year), seq_census),
                    district_id |-> d[1].id, year |-> year,
                    population |-> m.population, households |-> m.households,
                    avg_age |-> m.avg_age, median_income |-> m.median_income,
                    unemployment_rate |-> m.unemployment_rate,
                    collected_at |-> now, notes |-> m.notes]
        IN  /\ clock < MaxClock
            /\ clock' = clock + 1
            /\ census_records' = InsertOrReplace(census_records, row)
            /\ seq_census' = IF row.id > seq_census THEN row.id ELSE seq_census
            /\ assigned_ids' = assigned_ids \cup {row.id}
            /\ result' = [op |-> "record_census", args |-> args,
                          error |-> "", value |-> row]
            /\ UNCHANGED <<districts, seq_districts>>

list_districts(region) ==
  /\ result' = [op |-> "list_districts", args |-> region, error |-> "",
                value |-> ListDistricts(region)]
  /\ UNCHANGED <<districts, census_records, seq_districts, seq_census, clock,
                 assigned_ids>>

get_summary(district_name) ==
  /\ result' = [op |-> "get_summary", args |-> district_name,
                error |-> GetSummary(district_name).error,
                value |-> GetSummary(district_name).value]
  /\ UNCHANGED <<districts, census_records, seq_districts, seq_census, clock,
                 assigned_ids>>

regional_report(region) ==
  /\ result' = [op |-> "regional_report", args |-> region, error |-> "",
                value |-> RegionalReport(region)]
  /\ UNCHANGED <<districts, census_records, seq_districts, seq_census, clock,
                 assigned_ids>>

status ==
  /\ result' = [op |-> "status", args |-> <<>>, error |-> "", value |-> Status]
  /\ UNCHANGED <<districts, census_records, seq_districts, seq_census, clock,
                 assigned_ids>>

Next ==
  \/ \E n \in Names, s \in Registrations : add_district(n, s[1], s[2], s[3])
  \/ \E n \in Names, c \in CensusInputs : record_census(n, c[1], c[2])
  \/ \E f \in RegionFilters : list_districts(f)
  \/ \E n \in Names : get_summary(n)
  \/ \E r \in Regions : regional_report(r)
  \/ status

Spec == Init /\ [][Next]_vars

----------------------------------------------------------------------------
(* Properties of the write operations *)

\* the district id a name resolves to, as a set (empty when unregistered)
IdsOfName(name) == {d.id : d \in {x \in districts : x.name = name}}

C1_OneRecordPerKey ==
  \A a, b \in census_records :
     (a.district_id = b.district_id /\ a.year = b.year) => a = b

C1_WriteStep ==
  (result'.op = "record_census" /\ result'.error = "") =>
    LET a == result'.args
    IN  \A id \in IdsOfName(a.district_name) :
          LET hit == {r \in census_records' :
                        r.district_id = id /\ r.year = a.year}
          IN  /\ Cardinality(hit) = 1
              /\ \A r \in hit :
                   /\ r.population = a.population
                   /\ r.households = a.households
                   /\ r.avg_age = a.avg_age
                   /\ r.median_income = a.median_income
                   /\ r.unemployment_rate = a.unemployment_rate
                   /\ r.notes = a.notes
                   /\ r.collected_at = clock
                   /\ \A old \in census_records :
                        r.collected_at >= old.collected_at

\* C1: the store never holds two census records with the same
\* (district id, year); and every successful record_census call, a second
\* call for the same pair included, leaves for its pair exactly one record
\* whose population, households, avg_age, median_income, unemployment_rate
\* and notes are the call's arguments and whose collected_at is the time of
\* the call.
C1_Upsert == [](C1_OneRecordPerKey) /\ [][C1_WriteStep]_vars

\* a second write for a pair has replaced the first: two census ids were
\* assigned, one row is left, and it carries the signature's defaults
C1_Witness ==
  /\ result.op = "record_census" /\ result.error = ""
  /\ result.value.id = 2
  /\ census_records = {result.value}
  /\ result.args.notes = ""

C2_NamesDistinct ==
  \A a, b \in districts : a.name = b.name => a = b

C2_DuplicateStep ==
  (result'.op = "add_district"
     /\ \E d \in districts : d.name = result'.args.name) =>
    /\ result'.error = "DuplicateDistrict"
    /\ districts' = districts
    /\ census_records' = census_records
    /\ seq_districts' = seq_districts
    /\ seq_census' = seq_census

\* C2: add_district with a name already registered fails with
\* DuplicateDistrict and changes neither table (the original row keeps its
\* id, region, area, type and created_at, and no row is added); district
\* names are pairwise distinct in every reachable state.
C2_Duplicate == [](C2_NamesDistinct) /\ [][C2_DuplicateStep]_vars

\* a re-registration with another region has just been refused
C2_Witness ==
  /\ result.op = "add_district" /\ result.error = "DuplicateDistrict"
  /\ \E d \in districts :
       d.name = result.args.name /\ d.region # result.args.region
                                 /\ d.area_sqkm # result.args.area_sqkm

\* C3: record_census with a name that matches no registered district fails
\* with DistrictNotFound and leaves both tables exactly as they were, for
\* every year and every value of the other arguments.
C3_NotFound ==
  [][ (result'.op = "record_census"
         /\ ~ \E d \in districts : d.name = result'.args.district_name) =>
        /\ result'.error = "DistrictNotFound"
        /\ districts' = districts
        /\ census_records' = census_records
        /\ seq_districts' = seq_districts
        /\ seq_census' = seq_census ]_vars

\* the call was refused while the other district exists and has data
C3_Witness ==
  /\ result.op = "record_census" /\ result.error = "DistrictNotFound"
  /\ districts # {} /\ census_records # {}
  /\ result.args.population > 0

\* C10: the id of the row written by a successful record_census call, which
\* is the id returned, is different from every census record id assigned
\* before the call, the id of the row it replaces included.
C10_IdsNeverReused ==
  [][ (result'.op = "record_census" /\ result'.error = "") =>
        /\ result'.value.id \notin assigned_ids
        /\ \A r \in census_records : r.id # result'.value.id
        /\ result'.value \in census_records'
        /\ \A r \in census_records : r.id \in assigned_ids ]_vars

\* the same pair has been written three times: the row left has the third id
C10_Witness ==
  /\ result.op = "record_census" /\ result.error = ""
  /\ result.value.id = 3
  /\ Cardinality(census_records) = 1

----------------------------------------------------------------------------
(* Properties of the read operations.  A read leaves the store alone and a *)
(* write overwrites result, so in every state where result is the outcome  *)
(* of a read, the store is the one the read saw.                           *)

\* the census records of the district called name
RecordsOfName(name) ==
  {r \in census_records : r.district_id \in IdsOfName(name)}

\* the record of the greatest year in a non-empty set of records
GreatestYear(S) == CHOOSE r \in S : \A o \in S : r.year >= o.year

\* x is an integer nearest to num / den (den > 0)
IsNearest(x, num, den) ==
  /\ 2 * (x * den - num) <= den
  /\ 2 * (num - x * den) <= den

\* C4: for a district with at least one census record, get_summary reports
\* as latest the record of the greatest year; yoy_growth is
\* (latest population - prior population) / prior population x 100 rounded
\* to 2 decimals, prior being the record of the second-greatest year, when
\* such a record exists and its population is strictly positive, and is
\* exactly 0 when the district has one record or the prior population is 0.
C4_SummaryLatestAndGrowth ==
  (result.op = "get_summary" /\ RecordsOfName(result.args) # {}) =>
    LET recs   == RecordsOfName(result.args)
        latest == GreatestYear(recs)
        rest   == recs \ {latest}
        v      == result.value
    IN  /\ result.error = ""
        /\ v.latest_year = latest.year
        /\ v.population = latest.population
        /\ v.households = latest.households
        /\ v.avg_age = latest.avg_age
        /\ v.median_income = latest.median_income
        /\ v.unemployment_rate = latest.unemployment_rate
        /\ IF rest # {} /\ GreatestYear(rest).population > 0
           THEN IsNearest(v.yoy_growth,
                          (latest.population - GreatestYear(rest).population)
                            * 10000,
                          GreatestYear(rest).population)
           ELSE v.yoy_growth = 0

\* three years on record, the latest year written first, growth 3.125 %
C4_Witness ==
  /\ result.op = "get_summary" /\ result.error = ""
  /\ Cardinality(RecordsOfName(result.args)) = 3
  /\ GreatestYear(RecordsOfName(result.args)).id = 1
  /\ result.value.yoy_growth \in {312, 313}

C5_Outcome ==
  result.op = "get_summary" =>
    LET registered == IdsOfName(result.args) # {}
        hasData    == RecordsOfName(result.args) # {}
    IN  /\ result.error \in {"DistrictNotFound", "NoCensusData", ""}
        /\ result.error = "DistrictNotFound" <=> ~registered
        /\ result.error = "NoCensusData" <=> (registered /\ ~hasData)
        /\ result.error = "" <=> (registered /\ hasData)
        /\ result.error = "" => result.value.district_name = result.args

\* C5: get_summary fails with DistrictNotFound exactly when no district has
\* the name, with NoCensusData exactly when the district exists and has no
\* census record, and returns a summary otherwise; it never changes the
\* store.
C5_SummaryErrors ==
  /\ [](C5_Outcome)
  /\ [][result'.op = "get_summary" => store' = store]_vars

\* NoCensusData for a registered district while another district has data
C5_Witness ==
  /\ result.op = "get_summary" /\ result.error = "NoCensusData"
  /\ census_records # {}

\* sum of a column over the latest-year records of a set of districts
RECURSIVE SumLatest(_, _)
SumLatest(ds, column) ==
  IF ds = {} THEN 0
  ELSE LET d == CHOOSE x \in ds : TRUE
       IN  GreatestYear(RecordsOfName(d.name))[column]
             + SumLatest(ds \ {d}, column)

\* C6: for a region with at least one registered district, regional_report
\* returns districts_with_data = the number of districts of that region
\* with a census record, total_population and total_households = the sums
\* of their latest-year values, and avg_household_size = total_population /
\* total_households rounded to 2 decimals, or 0 when total_households is 0.
C6_RegionalTotals ==
  (result.op = "regional_report"
     /\ \E d \in districts : d.region = result.args) =>
    LET ds       == {d \in districts : d.region = result.args}
        withData == {d \in ds : RecordsOfName(d.name) # {}}
        pop      == SumLatest(withData, "population")
        hh       == SumLatest(withData, "households")
        v        == result.value
    IN  /\ result.error = ""
        /\ "districts_with_data" \in DOMAIN v
        /\ v.districts_with_data = Cardinality(withData)
        /\ v.total_population = pop
        /\ v.total_households = hh
        /\ IF hh = 0 THEN v.avg_household_size = 0
           ELSE IsNearest(v.avg_household_size, pop * 100, hh)

\* C7: regional_report(region) returns the minimal shape {region,
\* districts: 0} whenever no registered district has that region, the empty
\* string included, and the full aggregate shape whenever one has.
C7_ReportShape ==
  result.op = "regional_report" =>
    IF \E d \in districts : d.region = result.args
    THEN DOMAIN result.value =
           {"region", "districts_with_data", "total_population",
            "total_households", "avg_household_size"}
    ELSE /\ DOMAIN result.value = {"region", "districts"}
         /\ result.value.districts = 0
         /\ result.value.region = result.args

\* C8: list_districts with a filter returns exactly the districts whose
\* region equals the filter string, the empty string included (an empty
\* sequence when none has it); without a filter it returns all districts.
C8_ListFilter ==
  result.op = "list_districts" =>
    LET rows == {result.value[i] : i \in 1..Len(result.value)}
    IN  /\ Len(result.value) = Cardinality(rows)
        /\ IF result.args = <<>>
           THEN rows = districts
           ELSE rows = {d \in districts : d.region = result.args[1]}

\* C9: status() reports year_range "none" exactly when there is no census
\* record; otherwise year_range carries the least and the greatest year on
\* record; the two counts are the numbers of rows of the two tables.
C9_StatusYearRange ==
  result.op = "status" =>
    /\ result.value.districts = Cardinality(districts)
    /\ result.value.census_records = Cardinality(census_records)
    /\ result.value.year_range = <<>> <=> census_records = {}
    /\ census_records # {} =>
         LET ys == {r.year : r \in census_records}
         IN  result.value.year_range =
               << CHOOSE y \in ys : \A o \in ys : y <= o,
                  CHOOSE y \in ys : \A o \in ys : y >= o >>

====
